---- MODULE Spec2Model ----
(***************************************************************************)
(* State-machine model of the RAG workshop back end: the vector store      *)
(* (one collection, its documents and its search index) and the request    *)
(* handlers that act on it -- CreateOrResetIndex, IngestDocuments,         *)
(* QueryDocuments and the older delete-all ingestion handler.              *)
(* Every handler is split at its awaits on the store; remote calls         *)
(* (extractors, embedding provider, completion provider, store errors)     *)
(* answer nondeterministically.                                            *)
(***************************************************************************)
EXTENDS Integers, Sequences, FiniteSets, TLC

\* ---------------------------------------------------------------- bounds
MaxCalls == 3      \* requests issued in one behaviour
MaxChunks == 2     \* most chunks the splitter yields for one file
MaxBatch == 2      \* most files in one ingestion batch
RaceBatch == 1     \* most files in a batch of two requests in flight at once

\* ------------------------------------------------------- program constants
OpenAIDim == 1536
VoyageDim == 1024
SearchLimit == 3

\* request slots; requests served one at a time use slot 1
Slots == {1, 2}
Providers == {"openai", "voyageai"}
Names == {"a.txt", "B.PPTX", "c.exe"}
DefaultField == "embedding"
NoIndex == [path |-> "none", dims |-> 0]

VARIABLES collExists, docs, index, reqs, calls, seed, processed, ui

vars == <<collExists, docs, index, reqs, calls, seed, processed, ui>>

\* ------------------------------------------------------------ pure helpers

\* file.name.toLowerCase().split('.').pop()
fileExtension(name) ==
  CASE name = "a.txt" -> "txt"
    [] name = "B.PPTX" -> "pptx"
    [] OTHER -> "exe"

\* the cases of the extension switch
SupportedExt == {"pdf", "csv", "txt", "docx", "doc", "xls", "xlsx", "pptx"}

\* apiProvider === 'openai' ? 1536 : 1024
numDimensions(provider) == IF provider = "openai" THEN OpenAIDim ELSE VoyageDim

\* collection.findOne({ <f>: { $exists: true } })
HasField(D, f) == \E d \in D : d.field = f

\* faulty variant: the generic name is looked up before the newest one
getEmbeddingFieldPath_swapped(D) ==
  IF HasField(D, "embedding") THEN "embedding"
  ELSE IF HasField(D, "embeddingVector") THEN "embeddingVector"
  ELSE IF HasField(D, "plot_embedding") THEN "plot_embedding"
  ELSE "embedding"

\* the copy used by ingestion
getEmbeddingFieldPath(D) ==
  IF HasField(D, "embeddingVector") THEN "embeddingVector"
  ELSE IF HasField(D, "embedding") THEN "embedding"
  ELSE IF HasField(D, "plot_embedding") THEN "plot_embedding"
  ELSE "embedding"

\* the copy used by query
getEmbeddingFieldPathQuery(D) ==
  IF HasField(D, "embeddingVector") THEN "embeddingVector"
  ELSE IF HasField(D, "embedding") THEN "embedding"
  ELSE IF HasField(D, "plot_embedding") THEN "plot_embedding"
  ELSE "embedding"

\* the inlined copy of index creation: default when the collection is not
\* listed or when a lookup throws (the error is swallowed)
indexFieldPath(exists, D, lookupOk) ==
  IF ~lookupOk THEN "embedding"
  ELSE IF ~exists THEN "embedding"
  ELSE IF HasField(D, "embeddingVector") THEN "embeddingVector"
  ELSE IF HasField(D, "embedding") THEN "embedding"
  ELSE IF HasField(D, "plot_embedding") THEN "plot_embedding"
  ELSE "embedding"

\* faulty variant: the existence check never finds the source
SourceExists_never(D, name) == FALSE

\* collection.findOne({ 'metadata.source': file.name })
SourceExists(D, name) == \E d \in D : d.source = name

\* faulty variant: ingestion embeds with the configured provider
IngestEmbeddingDim_byProvider(provider) == numDimensions(provider)

\* ingestion embeds with OpenAI text-embedding-ada-002 whatever the provider
IngestEmbeddingDim(provider) == OpenAIDim

\* faulty variant: the store keeps one record per source and position
Copies_unique(D, name, k) == 0

\* the copy number that stands for the _id the store gives a new record:
\* the number of records of the same source and position already stored
Copies(D, name, k) == Cardinality({ d \in D : d.source = name /\ d.chunk_index = k })

\* faulty variant: the records of a file are not written before the loop
\* moves on
ChunkDocs_deferred(D, name, field, dim, n, txt) == {}

\* the chunk records built for one file and inserted into D
ChunkDocs(D, name, field, dim, n, txt) ==
  { [source |-> name, field |-> field, dim |-> dim, chunk_index |-> k,
     total_chunks |-> n, text |-> txt, vecOf |-> txt,
     copy |-> Copies(D, name, k)] : k \in 0..(n - 1) }

\* documents of a collection written under an earlier convention
SeedDoc(f) ==
  [source |-> "legacy", field |-> f, dim |-> OpenAIDim, chunk_index |-> 0,
   total_chunks |-> 1, text |-> "content", vecOf |-> "content", copy |-> f]

\* the collections a request sequence can start from: absent, empty, or
\* holding documents with some of the known vector fields (or none of them)
Seeds ==
  { [exists |-> FALSE, docs |-> {}],
    [exists |-> TRUE, docs |-> {}],
    [exists |-> TRUE, docs |-> {SeedDoc("embeddingVector"), SeedDoc("embedding")}],
    [exists |-> TRUE, docs |-> {SeedDoc("embedding"), SeedDoc("plot_embedding")}],
    [exists |-> TRUE, docs |-> {SeedDoc("plot_embedding"), SeedDoc("none")}],
    [exists |-> TRUE, docs |-> {SeedDoc("none")}] }

IdleReq ==
  [op |-> "none", pc |-> "idle", reset |-> FALSE, provider |-> "openai",
   files |-> <<>>, last |-> FALSE, before |-> [n \in Names |-> "no"], fieldPath |-> "none", lookupOk |-> TRUE,
   existing |-> 0, stats |-> <<>>, qdim |-> 0, searched |-> FALSE,
   hits |-> 0, answer |-> "none", idxAnswer |-> "none", resp |-> "none", err |-> "none",
   context |-> "none", sources |-> 0, llmCalls |-> 0, llmContext |-> "none",
   embedFailed |-> FALSE, extractFailed |-> FALSE, answers |-> 0,
   texts |-> <<>>, vecs |-> <<>>, completed |-> <<>>,
   results |-> <<>>, labels |-> <<>>, parts |-> <<>>, conn |-> FALSE,
   report |-> [totalChunks |-> 0, totalDocuments |-> 0,
               embeddingFieldPath |-> "none", embeddingDimensions |-> 0]]

\* the outer catch: answer 500 { success: false, error: error.message }
Fail(r, e) == [r EXCEPT !.pc = "done", !.resp = "error", !.err = e, !.answers = @ + 1]

\* faulty variant: a failed embedding call is swallowed
EmbeddingThrows_swallowed(embed, n) == FALSE

\* generateEmbedding rethrows the provider's error; the n calls of one file
\* run under Promise.all, which rejects as soon as one of them throws
EmbeddingThrows(embed, n) == embed = "fails" /\ n > 0

\* the state of the browser application: App (config, isProcessing, the
\* local documents and collectionStats), the status dashboard (its own
\* collectionStats, the stats fetch), the configuration panel and the
\* upload panel with its processDocuments call
ZeroStats == [totalDocuments |-> 0, totalChunks |-> 0]

UiIdle ==
  [config |-> FALSE, isProcessing |-> FALSE,
   localDocuments |-> 0, localChunks |-> 0,
   collectionStats |-> ZeroStats,
   dashLoaded |-> FALSE, dashStats |-> ZeroStats,
   panel |-> "idle", timer |-> "none", statsFetch |-> "none",
   upload |-> "idle", processingStatus |-> ""]

\* ------------------------------------------------------------------- Init
Init ==
  /\ seed \in Seeds
  /\ docs = seed.docs
  /\ collExists = seed.exists
  /\ index = NoIndex
  /\ reqs = [s \in Slots |-> IdleReq]
  /\ calls = 0
  /\ processed = [n \in Names |-> "no"]
  /\ ui = UiIdle

\* ------------------------------------------------- arrival of a request
Free(s) == reqs[s].pc \in {"idle", "done", "lost"}

StartIndex(s) ==
  /\ Free(s) /\ calls < MaxCalls
  /\ \E rs \in BOOLEAN, p \in Providers :
       reqs' = [reqs EXCEPT ![s] =
                  [IdleReq EXCEPT !.op = "index", !.pc = "fieldcheck",
                                  !.reset = rs, !.provider = p]]
  /\ calls' = calls + 1
  /\ UNCHANGED <<ui, collExists, docs, index, seed, processed>>

StartIngest(s) ==
  /\ Free(s) /\ calls < MaxCalls
  /\ \E p \in Providers :
       reqs' = [reqs EXCEPT ![s] =
                  [IdleReq EXCEPT !.op = "ingest", !.pc = "prepare", !.provider = p,
                                  !.before = processed]]
  /\ calls' = calls + 1
  /\ UNCHANGED <<ui, collExists, docs, index, seed, processed>>

StartQuery(s) ==
  /\ Free(s) /\ calls < MaxCalls
  /\ \E p \in Providers :
       reqs' = [reqs EXCEPT ![s] =
                  [IdleReq EXCEPT !.op = "query", !.pc = "embed", !.provider = p]]
  /\ calls' = calls + 1
  /\ UNCHANGED <<ui, collExists, docs, index, seed, processed>>

\* ------------------------------------------------ CreateOrResetIndex

\* faulty variant: the drop is not guarded by reset
AfterFieldCheck_alwaysDrop(reset) == "drop"

\* if (reset) { drop } ; then listCollections
AfterFieldCheck(reset) == IF reset THEN "drop" ELSE "list"

\* the field check that runs before any collection operation
IndexFieldCheck(s) ==
  /\ reqs[s].op = "index" /\ reqs[s].pc = "fieldcheck"
  /\ \E ok \in BOOLEAN :
       reqs' = [reqs EXCEPT ![s] =
                  [@ EXCEPT !.fieldPath = indexFieldPath(collExists, docs, ok),
                            !.lookupOk = ok, !.conn = TRUE,
                            !.pc = AfterFieldCheck(reqs[s].reset)]]
  /\ UNCHANGED <<ui, collExists, docs, index, calls, seed, processed>>

\* faulty variant: the drop leaves the documents in place
dropped_keepDocs(D) == D

\* documents left by db.collection(name).drop()
dropped(D) == {}

\* reset mode: drop the collection, NamespaceNotFound is tolerated
IndexDrop(s) ==
  /\ reqs[s].op = "index" /\ reqs[s].pc = "drop"
  /\ \E storeOk \in BOOLEAN :
       IF ~storeOk
       THEN /\ reqs' = [reqs EXCEPT ![s] = Fail(@, "StoreError")]
            /\ UNCHANGED <<ui, collExists, docs, index, processed>>
       ELSE /\ reqs' = [reqs EXCEPT ![s] = [@ EXCEPT !.pc = "list"]]
            /\ IF collExists
               THEN /\ collExists' = FALSE
                    /\ docs' = dropped(docs)
                    /\ index' = NoIndex
                    /\ processed' = [n \in Names |-> "no"]
               ELSE UNCHANGED <<ui, collExists, docs, index, processed>>
  /\ UNCHANGED <<ui, calls, seed>>

\* listCollections({ name })
IndexList(s) ==
  /\ reqs[s].op = "index" /\ reqs[s].pc = "list"
  /\ reqs' = [reqs EXCEPT ![s] =
                [@ EXCEPT !.pc = IF collExists THEN "searchIndex" ELSE "createCollection"]]
  /\ UNCHANGED <<ui, collExists, docs, index, calls, seed, processed>>

\* db.createCollection(name); fails when the collection appeared meanwhile
IndexCreateCollection(s) ==
  /\ reqs[s].op = "index" /\ reqs[s].pc = "createCollection"
  /\ IF collExists
     THEN /\ reqs' = [reqs EXCEPT ![s] = Fail(@, "NamespaceExists")]
          /\ UNCHANGED collExists
     ELSE /\ reqs' = [reqs EXCEPT ![s] = [@ EXCEPT !.pc = "searchIndex"]]
          /\ collExists' = TRUE
  /\ UNCHANGED <<ui, docs, index, calls, seed, processed>>

\* faulty variant: no error of createSearchIndex is tolerated
Tolerated_none(codeName) == FALSE

\* error.codeName === 'IndexAlreadyExists'
Tolerated(codeName) == codeName = "IndexAlreadyExists"

\* collection.createSearchIndex(definition), close, respond
IndexCreateSearchIndex(s) ==
  /\ reqs[s].op = "index" /\ reqs[s].pc = "searchIndex"
  /\ \E storeOk \in BOOLEAN :
       LET ans == IF ~storeOk THEN "PermissionDenied"
                  ELSE IF index # NoIndex THEN "IndexAlreadyExists"
                  ELSE "created"
       IN /\ index' = IF ans = "created"
                      THEN [path |-> reqs[s].fieldPath,
                            dims |-> numDimensions(reqs[s].provider)]
                      ELSE index
          /\ reqs' = [reqs EXCEPT ![s] =
                        IF ans = "created" \/ Tolerated(ans)
                        THEN [@ EXCEPT !.pc = "done", !.resp = "ok", !.answers = @ + 1,
                                       !.idxAnswer = ans, !.conn = FALSE]
                        ELSE [Fail(@, ans) EXCEPT !.idxAnswer = ans]]
  /\ UNCHANGED <<ui, collExists, docs, calls, seed, processed>>

\* the field path and the dimension the 200 answer names as created
reportedField(r) == r.fieldPath
reportedDims(r) == numDimensions(r.provider)

\* ---------------------------------------------------- IngestDocuments

\* connect, resolve the field path, count the existing documents
IngestPrepare(s) ==
  /\ reqs[s].op = "ingest" /\ reqs[s].pc = "prepare"
  /\ reqs' = [reqs EXCEPT ![s] =
                [@ EXCEPT !.fieldPath = getEmbeddingFieldPath(docs),
                          !.existing = Cardinality(docs),
                          !.conn = TRUE, !.pc = "check"]]
  /\ UNCHANGED <<ui, collExists, docs, index, calls, seed, processed>>

\* The batch is an input of the call that the loop reads one file at a
\* time, so its files are drawn when the loop reaches them: r.files holds
\* the files reached so far, r.last tells whether the current one ends the
\* batch.  A batch has 1..MaxBatch files.
NextFile(r, name, last) ==
  [r EXCEPT !.files = Append(@, name), !.last = last]

LastAllowed(r) ==
  IF Len(r.files) + 1 >= MaxBatch THEN {TRUE} ELSE BOOLEAN

Current(r) == r.files[Len(r.files)]

\* the request after the loop body of the current file completed normally
Advance(r, stat) ==
  [r EXCEPT !.stats = Append(@, stat),
            !.pc = IF r.last THEN "respond" ELSE "check"]

\* loop head: the next file of the batch and its existence check
IngestCheck(s) ==
  /\ reqs[s].op = "ingest" /\ reqs[s].pc = "check"
  /\ \E name \in Names, last \in LastAllowed(reqs[s]) :
       LET r == NextFile(reqs[s], name, last)
       IN reqs' = [reqs EXCEPT ![s] =
                     IF SourceExists(docs, name)
                     THEN Advance(r, [fileName |-> name, status |-> "skipped",
                                      chunksCreated |-> 0])
                     ELSE [r EXCEPT !.pc = "load"]]
  /\ UNCHANGED <<ui, collExists, docs, index, calls, seed, processed>>

\* the answers of the extractor of a format: it returns, it throws (its
\* promise rejects), or, for the slide streams that extractPowerPointText
\* reads without an 'error' listener, a stream emits 'error'
ExtractAnswers(ext) ==
  IF ext = "pptx" THEN {"ok", "throws", "streamError"} ELSE {"ok", "throws"}

\* an 'error' event without listener is thrown outside every handler's
\* promise chain and ends the server process: no request in flight is answered
Crash(rs) ==
  [t \in Slots |-> IF rs[t].pc \in {"idle", "done", "lost"} THEN rs[t]
                   ELSE [rs[t] EXCEPT !.pc = "lost"]]

\* load, split, embed and insert one file.  extract / embed are the answers
\* of the extractor and of the embedding provider, n the number of chunks
\* the splitter yields for the extracted text.
IngestFile(s) ==
  /\ reqs[s].op = "ingest" /\ reqs[s].pc = "load"
  /\ \E extract \in ExtractAnswers(fileExtension(Current(reqs[s]))),
        embed \in {"ok", "fails"}, n0 \in 0..MaxChunks :
       LET name == Current(reqs[s])
           ext == fileExtension(name)
           fallback == ext = "pptx" /\ extract = "throws"
           n == IF fallback THEN 1 ELSE n0
           reached == ext \in SupportedExt /\ (extract = "ok" \/ fallback)
           r == [reqs[s] EXCEPT !.embedFailed = reached /\ embed = "fails" /\ n > 0,
                                !.extractFailed = ext \in SupportedExt /\ extract # "ok"]
           txt == IF fallback THEN "placeholder" ELSE "content"
           new == ChunkDocs(docs, name, r.fieldPath,
                            IngestEmbeddingDim(r.provider), n, txt)
       IN IF ext \notin SupportedExt
          THEN /\ reqs' = [reqs EXCEPT ![s] = Fail(r, "UnsupportedFileType")]
               /\ UNCHANGED <<ui, collExists, docs, processed>>
          ELSE IF extract = "streamError"
          THEN /\ reqs' = Crash([reqs EXCEPT ![s] = r])
               /\ UNCHANGED <<ui, collExists, docs, processed>>
          ELSE IF extract = "throws" /\ ~fallback
          THEN /\ reqs' = [reqs EXCEPT ![s] = Fail(r, "ExtractionError")]
               /\ UNCHANGED <<ui, collExists, docs, processed>>
          ELSE IF EmbeddingThrows(embed, n)
          THEN /\ reqs' = [reqs EXCEPT ![s] = Fail(r, "EmbeddingError")]
               /\ UNCHANGED <<ui, collExists, docs, processed>>
          ELSE /\ docs' = docs \cup new
               /\ collExists' = (collExists \/ n > 0)
               /\ processed' = [processed EXCEPT ![name] =
                                  IF n > 0 THEN "chunks"
                                  ELSE IF @ = "chunks" THEN @ ELSE "empty"]
               /\ reqs' = [reqs EXCEPT ![s] =
                             Advance(r, [fileName |-> name, status |-> "processed",
                                         chunksCreated |-> n])]
  /\ UNCHANGED <<ui, index, calls, seed>>

\* ---- the loop body of one file with its embedding calls taken one by one

ChunkTexts == {"x", "y"}

\* loader and splitter of the current file: the splitter yields the chunk
\* texts in order, and one embedding call per chunk is started
EmbedStart(s) ==
  /\ reqs[s].op = "ingest" /\ reqs[s].pc = "load"
  /\ \E extract \in ExtractAnswers(fileExtension(Current(reqs[s]))), n0 \in 0..MaxChunks :
       LET name == Current(reqs[s])
           ext == fileExtension(name)
           fallback == ext = "pptx" /\ extract = "throws"
           n == IF fallback THEN 1 ELSE n0
           r == [reqs[s] EXCEPT !.extractFailed = ext \in SupportedExt /\ extract # "ok"]
       IN IF ext \notin SupportedExt
          THEN reqs' = [reqs EXCEPT ![s] = Fail(r, "UnsupportedFileType")]
          ELSE IF extract = "streamError"
          THEN reqs' = Crash([reqs EXCEPT ![s] = r])
          ELSE IF extract = "throws" /\ ~fallback
          THEN reqs' = [reqs EXCEPT ![s] = Fail(r, "ExtractionError")]
          ELSE \E T \in [1..n -> IF fallback THEN {"placeholder"} ELSE ChunkTexts] :
                 reqs' = [reqs EXCEPT ![s] =
                            [r EXCEPT !.texts = T, !.vecs = [i \in 1..n |-> "none"],
                                      !.completed = <<>>, !.pc = "embedding"]]
  /\ UNCHANGED <<ui, collExists, docs, index, calls, seed, processed>>

\* faulty variant: a vector is appended to the list when its call completes
attach_push(vecs, i, arrived, v) == [vecs EXCEPT ![arrived + 1] = v]

\* the callback of chunk i returns its own record, and Promise.all puts it
\* at position i of its result
attach(vecs, i, arrived, v) == [vecs EXCEPT ![i] = v]

Range(q) == { q[j] : j \in DOMAIN q }

\* one of the pending embedding calls completes, in any order; completed
\* lists the calls in their order of completion
EmbedComplete(s) ==
  /\ reqs[s].op = "ingest" /\ reqs[s].pc = "embedding"
  /\ \E i \in (1..Len(reqs[s].texts)) \ Range(reqs[s].completed),
        embed \in {"ok", "fails"} :
       reqs' = [reqs EXCEPT ![s] =
                  IF EmbeddingThrows(embed, 1)
                  THEN [Fail(@, "EmbeddingError") EXCEPT !.embedFailed = TRUE]
                  ELSE [@ EXCEPT !.vecs = attach(@, i, Len(reqs[s].completed),
                                                 reqs[s].texts[i]),
                                 !.completed = Append(@, i)]]
  /\ UNCHANGED <<ui, collExists, docs, index, calls, seed, processed>>

\* the records handed to insertMany: text, vector and position of each chunk
EmbeddedDocs(D, r) ==
  { [source |-> Current(r), field |-> r.fieldPath,
     dim |-> IngestEmbeddingDim(r.provider), chunk_index |-> i - 1,
     total_chunks |-> Len(r.texts), text |-> r.texts[i], vecOf |-> r.vecs[i],
     copy |-> Copies(D, Current(r), i - 1)] : i \in 1..Len(r.texts) }

\* all embedding calls completed: insertMany and the file's statistics
EmbedInsert(s) ==
  /\ reqs[s].op = "ingest" /\ reqs[s].pc = "embedding"
  /\ Len(reqs[s].completed) = Len(reqs[s].texts)
  /\ LET r == reqs[s]
         n == Len(r.texts)
     IN /\ docs' = docs \cup EmbeddedDocs(docs, r)
        /\ collExists' = (collExists \/ n > 0)
        /\ processed' = [processed EXCEPT ![Current(r)] =
                           IF n > 0 THEN "chunks"
                           ELSE IF @ = "chunks" THEN @ ELSE "empty"]
        /\ reqs' = [reqs EXCEPT ![s] =
                      Advance(r, [fileName |-> Current(r), status |-> "processed",
                                  chunksCreated |-> n])]
  /\ UNCHANGED <<ui, index, calls, seed>>

\* processedDocuments: the entries pushed for the files that were processed
processedDocuments(r) == SelectSeq(r.stats, LAMBDA st : st.status = "processed")

RECURSIVE SumChunks(_)
\* reduce((sum, doc) => sum + doc.chunks.length, 0)
SumChunks(q) == IF q = <<>> THEN 0 ELSE Head(q).chunksCreated + SumChunks(Tail(q))

\* faulty variant: the count taken before the loop is left out
ingestTotals_newOnly(r) ==
  [newDocuments |-> Len(processedDocuments(r)),
   newChunks |-> SumChunks(processedDocuments(r)),
   existingChunks |-> r.existing,
   totalChunks |-> SumChunks(processedDocuments(r))]

\* the stats object of the 200 answer
ingestTotals(r) ==
  [newDocuments |-> Len(processedDocuments(r)),
   newChunks |-> SumChunks(processedDocuments(r)),
   existingChunks |-> r.existing,
   totalChunks |-> r.existing + SumChunks(processedDocuments(r))]

\* faulty variant: the failure answer carries what was processed so far
ingestBody_partial(r) ==
  IF r.resp = "ok"
  THEN [success |-> TRUE, processingStats |-> r.stats, stats |-> ingestTotals(r),
        embeddingField |-> r.fieldPath]
  ELSE [success |-> FALSE, error |-> r.err, processingStats |-> r.stats,
        stats |-> ingestTotals(r)]

\* the JSON body of the answer: the 200 answer of the success path, the 500
\* answer of the catch
ingestBody(r) ==
  IF r.resp = "ok"
  THEN [success |-> TRUE, processingStats |-> r.stats, stats |-> ingestTotals(r),
        embeddingField |-> r.fieldPath]
  ELSE [success |-> FALSE, error |-> r.err]

\* close the connection and answer 200 with the per-file statistics; conn
\* tells whether the MongoClient the handler connected is still open: close()
\* is called on this path only, the catch answers without closing
IngestRespond(s) ==
  /\ reqs[s].op = "ingest" /\ reqs[s].pc = "respond"
  /\ reqs' = [reqs EXCEPT ![s] = [@ EXCEPT !.pc = "done", !.resp = "ok", !.answers = @ + 1,
                                           !.conn = FALSE]]
  /\ UNCHANGED <<ui, collExists, docs, index, calls, seed, processed>>

\* ----------------------------------------------------- QueryDocuments

\* generateEmbedding(question, config)
QueryEmbed(s) ==
  /\ reqs[s].op = "query" /\ reqs[s].pc = "embed"
  /\ \E embed \in {"ok", "fails"} :
       reqs' = [reqs EXCEPT ![s] =
                  IF EmbeddingThrows(embed, 1)
                  THEN [Fail(@, "EmbeddingError") EXCEPT !.embedFailed = TRUE]
                  ELSE [@ EXCEPT !.qdim = numDimensions(reqs[s].provider),
                                 !.embedFailed = (embed = "fails"),
                                 !.pc = "search"]]
  /\ UNCHANGED <<ui, collExists, docs, index, calls, seed, processed>>

\* documents the index can return for a query vector of length qdim
Searchable(D, path, qdim) ==
  IF index = NoIndex \/ index.path # path \/ index.dims # qdim THEN {}
  ELSE { d \in D : d.field = path /\ d.dim = qdim }

Min(a, b) == IF a < b THEN a ELSE b

Sentinel == "No relevant documents found."

\* faulty variant: an empty result leaves the context empty
retrievedContext_empty(n) == IF n > 0 THEN "chunks" ELSE ""

\* the context text built from n search results
retrievedContext(n) == IF n > 0 THEN "chunks" ELSE Sentinel

\* the number of citation labels pushed for n search results
contextSources(n) == IF n > 0 THEN n ELSE 0

\* resolve the field path, run $vectorSearch (limit 3), build the context
QuerySearch(s) ==
  /\ reqs[s].op = "query" /\ reqs[s].pc = "search"
  /\ LET path == getEmbeddingFieldPathQuery(docs)
         pool == Searchable(docs, path, reqs[s].qdim)
         mismatch == index # NoIndex /\ index.dims # reqs[s].qdim
     IN \E storeOk \in BOOLEAN, k \in 0..Min(SearchLimit, Cardinality(pool)) :
          reqs' = [reqs EXCEPT ![s] =
                     IF ~storeOk /\ mismatch
                     THEN [Fail(@, "StoreError") EXCEPT !.searched = TRUE,
                                                        !.fieldPath = path,
                                                        !.conn = TRUE]
                     ELSE [@ EXCEPT !.fieldPath = path, !.searched = TRUE,
                                    !.hits = k, !.context = retrievedContext(k),
                                    !.sources = contextSources(k), !.pc = "llm"]]
  /\ UNCHANGED <<ui, collExists, docs, index, calls, seed, processed>>

\* ---- the search step with the ranked result list kept

\* the ranked lists of at most lim different documents of the pool
Ranked(pool, lim) ==
  { q \in UNION { [1..k -> pool] : k \in 0..lim } :
      \A i, j \in DOMAIN q : i # j => q[i] # q[j] }

\* faulty variant: labels are numbered from 0
sourceLabel_zeroBased(i, d) == [n |-> i - 1, source |-> d.source]

\* `[Source ${index + 1}: ${metadata.source} ...]`
sourceLabel(i, d) == [n |-> i, source |-> d.source]

\* contextSources after the map over the search results
sourceLabels(res) == [i \in 1..Len(res) |-> sourceLabel(i, res[i])]

\* the pieces the context text joins: each label followed by its chunk's text
contextParts(res) == [i \in 1..Len(res) |-> <<sourceLabel(i, res[i]), res[i].text>>]

\* resolve the field path, run $vectorSearch (limit 3), build the context
QuerySearchRanked(s) ==
  /\ reqs[s].op = "query" /\ reqs[s].pc = "search"
  /\ LET path == getEmbeddingFieldPathQuery(docs)
         pool == Searchable(docs, path, reqs[s].qdim)
         mismatch == index # NoIndex /\ index.dims # reqs[s].qdim
     IN \E storeOk \in BOOLEAN, res \in Ranked(pool, SearchLimit) :
          reqs' = [reqs EXCEPT ![s] =
                     IF ~storeOk /\ mismatch
                     THEN [Fail(@, "StoreError") EXCEPT !.searched = TRUE,
                                                        !.fieldPath = path,
                                                        !.conn = TRUE]
                     ELSE [@ EXCEPT !.fieldPath = path, !.searched = TRUE,
                                    !.results = res, !.hits = Len(res),
                                    !.context = retrievedContext(Len(res)),
                                    !.sources = Len(sourceLabels(res)),
                                    !.labels = sourceLabels(res),
                                    !.parts = contextParts(res), !.pc = "llm"]]
  /\ UNCHANGED <<ui, collExists, docs, index, calls, seed, processed>>

\* generateLLMResponse and the 200 answer
QueryAnswer(s) ==
  /\ reqs[s].op = "query" /\ reqs[s].pc = "llm"
  /\ \E llm \in {"ok", "fails"} :
       reqs' = [reqs EXCEPT ![s] =
                  IF llm = "fails"
                  THEN [Fail(@, "CompletionError") EXCEPT !.llmCalls = @ + 1,
                                                          !.llmContext = reqs[s].context]
                  ELSE [@ EXCEPT !.pc = "done", !.resp = "ok", !.answers = @ + 1, !.answer = "text",
                                 !.llmCalls = @ + 1, !.llmContext = reqs[s].context]]
  /\ UNCHANGED <<ui, collExists, docs, index, calls, seed, processed>>

\* the entry the Q&A interface puts on its response list for the HTTP
\* answer of the request r: a non-2xx answer is replaced by a generic error
\* before its body is read, and the catch shows that error as the answer text
handleSubmit(r) ==
  IF r.resp = "ok"
  THEN [llmResponse |-> r.answer, vectorSearchResult |-> r.context,
        message |-> "none"]
  ELSE [llmResponse |-> "Sorry, I encountered an error: Failed to query documents",
        vectorSearchResult |-> "Error retrieving documents",
        message |-> "Failed to query documents"]

\* ------------------------------------------------- GetCollectionStats

StartStats(s) ==
  /\ Free(s) /\ calls < MaxCalls
  /\ reqs' = [reqs EXCEPT ![s] = [IdleReq EXCEPT !.op = "stats", !.pc = "stats"]]
  /\ calls' = calls + 1
  /\ UNCHANGED <<ui, collExists, docs, index, seed, processed>>

KnownFields == {"embedding", "embeddingVector", "plot_embedding"}

\* stands for the null that findOne returns when nothing matches
NoSample == SeedDoc("null")

\* what findOne({ $or: [...] }) can return: any document that carries a
\* known vector field, null when there is none
Samples(D) ==
  IF \E d \in D : d.field \in KnownFields
  THEN { d \in D : d.field \in KnownFields }
  ELSE {NoSample}

\* embeddingFieldPath and embeddingDimensions read off the sample document;
\* both stay null when there is none
sampleReport(D, sample) ==
  [totalChunks |-> Cardinality(D),
   totalDocuments |-> Cardinality({ d.source : d \in D }),
   embeddingFieldPath |-> IF sample # NoSample THEN sample.field ELSE "null",
   embeddingDimensions |-> IF sample # NoSample THEN sample.dim ELSE 0]

\* faulty variant: reading the statistics creates the collection
StatsRun_creating(s) ==
  /\ reqs[s].op = "stats" /\ reqs[s].pc = "stats"
  /\ reqs' = [reqs EXCEPT ![s] =
                [@ EXCEPT !.report = sampleReport(docs, NoSample),
                          !.pc = "done", !.resp = "ok", !.answers = @ + 1]]
  /\ collExists' = TRUE
  /\ UNCHANGED <<ui, docs, index, calls, seed, processed>>

\* count, distinct sources, aggregate, sample document, close, answer
StatsRun(s) ==
  /\ reqs[s].op = "stats" /\ reqs[s].pc = "stats"
  /\ \E storeOk \in BOOLEAN, sample \in Samples(docs) :
       reqs' = [reqs EXCEPT ![s] =
                  IF ~storeOk THEN Fail(@, "StoreError")
                  ELSE [@ EXCEPT !.report = sampleReport(docs, sample),
                                 !.pc = "done", !.resp = "ok", !.answers = @ + 1]]
  /\ UNCHANGED <<ui, collExists, docs, index, calls, seed, processed>>

\* ------------------------------------- the delete-all ingestion handler

StartLegacy(s) ==
  /\ Free(s) /\ calls < MaxCalls
  /\ reqs' = [reqs EXCEPT ![s] =
                [IdleReq EXCEPT !.op = "legacy", !.pc = "clear",
                                !.fieldPath = DefaultField]]
  /\ calls' = calls + 1
  /\ UNCHANGED <<ui, collExists, docs, index, seed, processed>>

\* collection.deleteMany({})
LegacyClear(s) ==
  /\ reqs[s].op = "legacy" /\ reqs[s].pc = "clear"
  /\ docs' = {}
  /\ processed' = [n \in Names |-> "no"]
  /\ reqs' = [reqs EXCEPT ![s] = [@ EXCEPT !.pc = "load"]]
  /\ UNCHANGED <<ui, collExists, index, calls, seed>>

\* PDFLoader, splitter, embeddings and insertMany for one file
LegacyFile(s) ==
  /\ reqs[s].op = "legacy" /\ reqs[s].pc = "load"
  /\ \E name \in Names, last \in LastAllowed(reqs[s]),
        extract \in {"ok", "throws"}, embed \in {"ok", "fails"}, n \in 0..MaxChunks :
       LET r == NextFile(reqs[s], name, last)
           new == ChunkDocs(docs, name, DefaultField, OpenAIDim, n, "content")
       IN IF extract = "throws"
          THEN /\ reqs' = [reqs EXCEPT ![s] = Fail(r, "ExtractionError")]
               /\ UNCHANGED <<ui, collExists, docs, processed>>
          ELSE IF embed = "fails" /\ n > 0
          THEN /\ reqs' = [reqs EXCEPT ![s] = Fail(r, "EmbeddingError")]
               /\ UNCHANGED <<ui, collExists, docs, processed>>
          ELSE /\ docs' = docs \cup new
               /\ collExists' = (collExists \/ n > 0)
               /\ processed' = [processed EXCEPT ![name] =
                                  IF n > 0 THEN "chunks"
                                  ELSE IF @ = "chunks" THEN @ ELSE "empty"]
               /\ reqs' = [reqs EXCEPT ![s] =
                             [r EXCEPT !.stats = Append(@, [fileName |-> name,
                                           status |-> "processed", chunksCreated |-> n]),
                                       !.pc = IF r.last THEN "respond" ELSE "load"]]
  /\ UNCHANGED <<ui, index, calls, seed>>

LegacyRespond(s) ==
  /\ reqs[s].op = "legacy" /\ reqs[s].pc = "respond"
  /\ reqs' = [reqs EXCEPT ![s] = [@ EXCEPT !.pc = "done", !.resp = "ok", !.answers = @ + 1]]
  /\ UNCHANGED <<ui, collExists, docs, index, calls, seed, processed>>

\* --------------------------------------------------------- specifications

\* one request at a time, served by the current handlers
Next ==
  \/ StartIndex(1)
  \/ StartIngest(1)
  \/ StartQuery(1)
  \/ IndexFieldCheck(1)
  \/ IndexDrop(1)
  \/ IndexList(1)
  \/ IndexCreateCollection(1)
  \/ IndexCreateSearchIndex(1)
  \/ IngestPrepare(1)
  \/ IngestCheck(1)
  \/ IngestFile(1)
  \/ IngestRespond(1)
  \/ QueryEmbed(1)
  \/ QuerySearch(1)
  \/ QueryAnswer(1)

Spec == Init /\ [][Next]_vars

\* the same, with /api/process-documents served by the delete-all handler
NextRouted ==
  \/ StartIndex(1)
  \/ StartLegacy(1)
  \/ IndexFieldCheck(1)
  \/ IndexDrop(1)
  \/ IndexList(1)
  \/ IndexCreateCollection(1)
  \/ IndexCreateSearchIndex(1)
  \/ LegacyClear(1)
  \/ LegacyFile(1)
  \/ LegacyRespond(1)

SpecRouted == Init /\ [][NextRouted]_vars

\* an ingestion request arrives at a slot that has served none yet; the
\* slots are taken in order
ArriveIngest(s) ==
  /\ reqs[s].pc = "idle"
  /\ \A t \in Slots : t < s => reqs[t].pc # "idle"
  /\ StartIngest(s)

\* the loop head of a request whose batch has at most RaceBatch files
RaceCheck(s) ==
  /\ IngestCheck(s)
  /\ Len(reqs'[s].files) = RaceBatch => reqs'[s].last

\* two ingestion requests in flight at once, one per slot: the handlers of
\* the two slots interleave at their awaits on the store
NextRace ==
  \/ ArriveIngest(1)
  \/ ArriveIngest(2)
  \/ IngestPrepare(1)
  \/ IngestPrepare(2)
  \/ RaceCheck(1)
  \/ RaceCheck(2)
  \/ IngestFile(1)
  \/ IngestFile(2)
  \/ IngestRespond(1)
  \/ IngestRespond(2)

\* the race is run on a collection that holds no document yet
InitRace == Init /\ seed.docs = {}

SpecRace == InitRace /\ [][NextRace]_vars

\* one ingestion request whose embedding calls complete one by one
NextEmbed ==
  \/ ArriveIngest(1)
  \/ IngestPrepare(1)
  \/ IngestCheck(1)
  \/ EmbedStart(1)
  \/ EmbedComplete(1)
  \/ EmbedInsert(1)
  \/ IngestRespond(1)

SpecEmbed == Init /\ [][NextEmbed]_vars

\* an index call, then an ingestion call, then a question, with the ranked
\* result list of the search kept
NextQuery ==
  \/ (calls = 0 /\ StartIndex(1))
  \/ (calls = 1 /\ StartIngest(1))
  \/ (calls = 2 /\ StartQuery(1))
  \/ IndexFieldCheck(1)
  \/ IndexDrop(1)
  \/ IndexList(1)
  \/ IndexCreateCollection(1)
  \/ IndexCreateSearchIndex(1)
  \/ IngestPrepare(1)
  \/ IngestCheck(1)
  \/ IngestFile(1)
  \/ IngestRespond(1)
  \/ QueryEmbed(1)
  \/ QuerySearchRanked(1)
  \/ QueryAnswer(1)

SpecQuery == Init /\ [][NextQuery]_vars

\* one request at a time, statistics requests among them
NextStats ==
  \/ StartIndex(1)
  \/ StartIngest(1)
  \/ StartStats(1)
  \/ IndexFieldCheck(1)
  \/ IndexDrop(1)
  \/ IndexList(1)
  \/ IndexCreateCollection(1)
  \/ IndexCreateSearchIndex(1)
  \/ IngestPrepare(1)
  \/ IngestCheck(1)
  \/ IngestFile(1)
  \/ IngestRespond(1)
  \/ StatsRun(1)

SpecStats == Init /\ [][NextStats]_vars

\* readers next to writers: slot 1 serves an index request and then an
\* ingestion request, slot 2 serves a query and then a statistics request
\* at the same time; the handlers of the two slots interleave at their awaits
NextReaders ==
  \/ reqs[1].op = "none" /\ StartIndex(1)
  \/ reqs[1].op = "index" /\ StartIngest(1)
  \/ reqs[2].op = "none" /\ StartQuery(2)
  \/ reqs[2].op = "query" /\ StartStats(2)
  \/ IndexFieldCheck(1)
  \/ IndexDrop(1)
  \/ IndexList(1)
  \/ IndexCreateCollection(1)
  \/ IndexCreateSearchIndex(1)
  \/ IngestPrepare(1)
  \/ RaceCheck(1)
  \/ IngestFile(1)
  \/ IngestRespond(1)
  \/ QueryEmbed(2)
  \/ QuerySearch(2)
  \/ QueryAnswer(2)
  \/ StatsRun(2)

SpecReaders == Init /\ [][NextReaders]_vars

\* ------------------------------------------------ the browser application

\* the dashboard effect that runs after a render: as long as the dashboard
\* holds no collection stats, or holds zero stats, it pushes the totals of
\* the local documents to App through onStatsUpdate
afterRender(u) ==
  IF ~u.dashLoaded \/ u.dashStats = ZeroStats
  THEN [u EXCEPT !.collectionStats =
                   [totalDocuments |-> u.localDocuments, totalChunks |-> u.localChunks]]
  ELSE u

\* App: the totalChunks handed to the Q&A interface
appTotalChunks(u) ==
  IF u.collectionStats.totalChunks > 0 THEN u.collectionStats.totalChunks
  ELSE u.localChunks

\* QAInterface: isSystemReady = isConfigured && totalChunks > 0
isSystemReady(u) == u.config /\ appTotalChunks(u) > 0

\* ConfigurationPanel.handleSubmit: the form is submitted and the request to
\* /api/create-vector-index is sent
PanelSubmit ==
  /\ ui.panel = "idle"
  /\ ui' = [ui EXCEPT !.panel = "creating"]
  /\ UNCHANGED <<collExists, docs, index, reqs, calls, seed, processed>>

\* the panel's request reaches the server: reset is false and the body has
\* no apiProvider, so the handler's default applies
PanelArrive ==
  /\ ui.panel = "creating" /\ reqs[1].pc = "idle"
  /\ StartIndex(1)
  /\ ~reqs'[1].reset /\ reqs'[1].provider = "voyageai"

\* the answer of the index request: handleSubmit saves the configuration
\* whether or not the index was created.  handleConfigSave sets the config
\* and starts the 500 ms timer; the dashboard's effect on the new config
\* calls fetchCollectionStats
handleConfigSave ==
  /\ ui.panel = "creating"
  /\ reqs[1].op = "index" /\ reqs[1].pc = "done"
  /\ ui' = afterRender([ui EXCEPT !.panel = "saved", !.config = TRUE,
                                  !.timer = "pending", !.statsFetch = "waiting"])
  /\ UNCHANGED <<collExists, docs, index, reqs, calls, seed, processed>>

\* the callback of the timer: setCollectionStats({ 0, 0 })
TimerFires ==
  /\ ui.timer = "pending"
  /\ ui' = afterRender([ui EXCEPT !.timer = "fired", !.collectionStats = ZeroStats])
  /\ UNCHANGED <<collExists, docs, index, reqs, calls, seed, processed>>

\* the dashboard's request reaches /api/get-collection-stats
StatsArrive ==
  /\ ui.statsFetch = "waiting" /\ reqs[2].pc = "idle"
  /\ StartStats(2)

\* fetchCollectionStats after the await: an OK answer with success sets the
\* dashboard's stats and calls handleStatsUpdate; any other answer, and a
\* rejected fetch, change nothing
fetchCollectionStats ==
  /\ ui.statsFetch = "waiting"
  /\ reqs[2].op = "stats" /\ reqs[2].pc \in {"done", "lost"}
  /\ LET r == reqs[2]
         got == [totalDocuments |-> r.report.totalDocuments,
                 totalChunks |-> r.report.totalChunks]
     IN ui' = afterRender(
                IF r.pc = "done" /\ r.resp = "ok"
                THEN [ui EXCEPT !.statsFetch = "done", !.dashLoaded = TRUE,
                                !.dashStats = got, !.collectionStats = got]
                ELSE [ui EXCEPT !.statsFetch = "done"])
  /\ UNCHANGED <<collExists, docs, index, reqs, calls, seed, processed>>

\* processDocuments up to its first await: onProcessingStart sets
\* isProcessing; the button is enabled only with a config and while
\* isProcessing is false
UploadStart ==
  /\ ui.upload = "idle" /\ ui.config /\ ~ui.isProcessing
  /\ ui' = afterRender([ui EXCEPT !.upload = "converting", !.isProcessing = TRUE,
                                  !.processingStatus = "Converting files..."])
  /\ UNCHANGED <<collExists, docs, index, reqs, calls, seed, processed>>

\* the catch of processDocuments: it shows the error and returns
uploadCatch(u) ==
  [u EXCEPT !.upload = "finished", !.processingStatus = "Error"]

\* fileToBase64 of every file: all converted and the request is sent, or
\* one conversion rejects
UploadConvert ==
  /\ ui.upload = "converting"
  /\ \E converted \in BOOLEAN :
       ui' = afterRender(
               IF converted
               THEN [ui EXCEPT !.upload = "waiting",
                               !.processingStatus = "Processing documents..."]
               ELSE uploadCatch(ui))
  /\ UNCHANGED <<collExists, docs, index, reqs, calls, seed, processed>>

\* the upload panel's request reaches /api/process-documents
UploadArrive ==
  /\ ui.upload = "waiting" /\ reqs[1].op = "index"
  /\ StartIngest(1)

\* App.handleFilesProcessed: append the new documents, clear isProcessing
handleFilesProcessed(u, r) ==
  [u EXCEPT !.localDocuments = @ + Len(processedDocuments(r)),
            !.localChunks = @ + SumChunks(processedDocuments(r)),
            !.isProcessing = FALSE]

\* processDocuments after the fetch: the body is parsed (safeParseJSON throws
\* on a body that is not JSON), a non-OK answer and success = false throw,
\* a rejected fetch throws; on success onFilesProcessed is called
UploadAnswer ==
  /\ ui.upload = "waiting"
  /\ reqs[1].op = "ingest" /\ reqs[1].pc \in {"done", "lost"}
  /\ \E parsable \in BOOLEAN :
       LET r == reqs[1]
           body == ingestBody(r)
       IN ui' = afterRender(
                  IF r.pc = "done" /\ parsable /\ r.resp = "ok" /\ body.success
                  THEN [handleFilesProcessed(ui, r) EXCEPT
                           !.upload = "finished",
                           !.processingStatus = "Documents processed successfully!"]
                  ELSE uploadCatch(ui))
  /\ UNCHANGED <<collExists, docs, index, reqs, calls, seed, processed>>

\* the application in the browser and the server it talks to: the index and
\* the ingestion request are served in slot 1, the stats request in slot 2;
\* the panel's index request has reset = false and never reaches the drop
NextUI ==
  \/ PanelSubmit
  \/ PanelArrive
  \/ handleConfigSave
  \/ TimerFires
  \/ StatsArrive
  \/ fetchCollectionStats
  \/ UploadStart
  \/ UploadConvert
  \/ UploadArrive
  \/ UploadAnswer
  \/ IndexFieldCheck(1)
  \/ IndexList(1)
  \/ IndexCreateCollection(1)
  \/ IndexCreateSearchIndex(1)
  \/ IngestPrepare(1)
  \/ IngestCheck(1)
  \/ IngestFile(1)
  \/ IngestRespond(1)
  \/ StatsRun(2)

SpecUI == Init /\ [][NextUI]_vars

TypeOK ==
  /\ collExists \in BOOLEAN
  /\ calls \in 0..MaxCalls
  /\ \A d \in docs : d.chunk_index < d.total_chunks
  /\ \A s \in Slots : Len(reqs[s].stats) <= Len(reqs[s].files)
  /\ \A s \in Slots : Len(reqs[s].files) <= MaxBatch

\* ------------------------------------------------------------ properties

\* the request in slot s takes a step of its handler
Acts(s) == reqs[s].pc \notin {"idle", "done", "lost"} /\ reqs'[s] # reqs[s]

\* the destructive step of CreateOrResetIndex
IsResetDrop(s) ==
  /\ reqs[s].op = "index" /\ reqs[s].reset
  /\ reqs[s].pc = "drop" /\ reqs'[s].pc = "list"

\* C1: no document is ever removed from the collection except by the drop
\* step of a CreateOrResetIndex call with reset = true; in particular an
\* ingestion call removes none.
CE_C1 == [][(docs \subseteq docs') \/ (\E s \in Slots : IsResetDrop(s))]_vars

\* the loop head of an ingestion call takes its next file
IsCheckStep(s) ==
  /\ reqs[s].op = "ingest" /\ reqs[s].pc = "check"
  /\ Len(reqs'[s].files) = Len(reqs[s].files) + 1

SkippedNow(s) ==
  /\ Len(reqs'[s].stats) = Len(reqs[s].stats) + 1
  /\ reqs'[s].stats[Len(reqs'[s].stats)].status = "skipped"
  /\ reqs'[s].stats[Len(reqs'[s].stats)].chunksCreated = 0
  /\ docs' = docs

\* C2 (as claimed): a source that an earlier ingestion call processed into
\* this collection is skipped when a later call submits it again: status
\* 'skipped', no chunk inserted, chunk count unchanged.
CE_C2 ==
  [][\A s \in Slots :
       (IsCheckStep(s) /\ reqs[s].before[Current(reqs'[s])] # "no") => SkippedNow(s)]_vars

\* C2 (amended): a source of which an earlier ingestion call inserted at
\* least one chunk into this collection is skipped when a later call submits
\* it again: status 'skipped', no chunk inserted, chunk count unchanged.
Thm_C2 ==
  [][\A s \in Slots :
       (IsCheckStep(s) /\ reqs[s].before[Current(reqs'[s])] = "chunks") => SkippedNow(s)]_vars

\* a second call submitted one source that an earlier call had inserted
\* chunks of, answered with 'skipped' and left the chunk count as found
W_C2 ==
  \E s \in Slots :
    /\ reqs[s].op = "ingest" /\ reqs[s].pc = "done" /\ reqs[s].resp = "ok"
    /\ Len(reqs[s].files) = 1
    /\ reqs[s].stats[1].status = "skipped"
    /\ reqs[s].before[reqs[s].files[1]] = "chunks"
    /\ Cardinality(docs) = reqs[s].existing

\* C3: an ingestion call always completes with a success report that holds
\* one outcome entry for every file of the batch, whatever failed on the way.
CE_C3 ==
  \A s \in Slots :
    (reqs[s].op = "ingest" /\ reqs[s].pc = "done")
      => (reqs[s].resp = "ok" /\ Len(reqs[s].stats) = Len(reqs[s].files))

\* C4: with an index of 1536 dimensions created on an empty collection and
\* 1536-dimension chunks ingested, a query under the 1024-dimension provider
\* issues no nearest-neighbour search and ends in a dimension-mismatch error.
CE_C4 ==
  \A s \in Slots :
    ( /\ reqs[s].op = "query" /\ reqs[s].provider = "voyageai"
      /\ seed.docs = {} /\ docs # {}
      /\ index.dims = OpenAIDim
      /\ \A d \in docs : d.dim = OpenAIDim )
      => ( /\ ~reqs[s].searched
           /\ (reqs[s].pc = "done" /\ reqs[s].err # "EmbeddingError")
                => (reqs[s].resp = "error" /\ reqs[s].err = "DimensionMismatch") )

\* C5: starting from an empty collection, all documents of the collection
\* carry their vector under one field name and all vectors have one length.
Thm_C5 ==
  (seed.docs = {}) =>
    \A d1, d2 \in docs : d1.field = d2.field /\ d1.dim = d2.dim

\* an indexed collection that started empty holds chunks of two sources
W_C5 ==
  /\ seed.docs = {}
  /\ index # NoIndex
  /\ \E d1, d2 \in docs : d1.source # d2.source

\* the name the resolver is claimed to return: the first of the priority
\* list that some document carries, the default when none does
Priority == <<"embeddingVector", "embedding", "plot_embedding">>
Present(D) == { i \in DOMAIN Priority : \E d \in D : d.field = Priority[i] }
ResolvedName(D) ==
  IF Present(D) = {} THEN DefaultField
  ELSE Priority[CHOOSE i \in Present(D) : \A j \in Present(D) : i <= j]

\* the steps in which the three copies of the resolver run
ResolvesIngest(s) ==
  reqs[s].op = "ingest" /\ reqs[s].pc = "prepare" /\ reqs'[s].pc = "check"
ResolvesQuery(s) ==
  reqs[s].op = "query" /\ reqs[s].pc = "search" /\ reqs'[s].searched
ResolvesIndex(s) ==
  reqs[s].op = "index" /\ reqs[s].pc = "fieldcheck" /\ reqs'[s].pc # "fieldcheck"

\* C6 (as claimed): each copy of the resolver -- ingestion, query, index
\* creation -- returns the first name of the priority list present in the
\* collection's documents, 'embedding' when none is.
CE_C6 ==
  [][\A s \in Slots :
       (ResolvesIngest(s) \/ ResolvesQuery(s) \/ ResolvesIndex(s))
         => reqs'[s].fieldPath = ResolvedName(docs)]_vars

\* C6 (amended): the ingestion and query copies always return that name,
\* and so does the index-creation copy whenever its lookups are answered;
\* when a lookup of the index-creation copy throws, that copy returns
\* 'embedding'.
Thm_C6 ==
  [][\A s \in Slots :
       /\ (ResolvesIngest(s) \/ ResolvesQuery(s))
            => reqs'[s].fieldPath = ResolvedName(docs)
       /\ ResolvesIndex(s)
            => reqs'[s].fieldPath =
                 (IF reqs'[s].lookupOk THEN ResolvedName(docs) ELSE DefaultField)]_vars

\* ingestion resolved the legacy name on a collection holding documents
\* with plot_embedding and documents with no vector field, and stored under it
W_C6 ==
  \E s \in Slots :
    /\ reqs[s].op = "ingest" /\ reqs[s].pc = "done"
    /\ reqs[s].fieldPath = "plot_embedding"
    /\ \E d \in docs : d.source # "legacy" /\ d.field = "plot_embedding"
    /\ \E d \in docs : d.field = "none"

\* C7: a successful CreateOrResetIndex with reset = true leaves an index
\* whose field path is the one the resolver returns for the reset collection.
CE_C7 ==
  \A s \in Slots :
    (reqs[s].op = "index" /\ reqs[s].reset /\ reqs[s].pc = "done" /\ reqs[s].resp = "ok")
      => index.path = ResolvedName(docs)

\* C8: no step of a CreateOrResetIndex call with reset = false changes the
\* documents of the collection, and such a call changes the existence of the
\* collection only by creating it when it is absent.
Thm_C8 ==
  [][\A s \in Slots :
       (Acts(s) /\ reqs[s].op = "index" /\ ~reqs[s].reset)
         => /\ docs' = docs
            /\ (collExists' # collExists) => (~collExists /\ collExists')]_vars

\* a non-resetting call succeeded on a collection that holds documents
W_C8 ==
  \E s \in Slots :
    /\ reqs[s].op = "index" /\ ~reqs[s].reset
    /\ reqs[s].pc = "done" /\ reqs[s].resp = "ok"
    /\ docs # {} /\ index # NoIndex

\* C9: a CreateOrResetIndex call with reset = true that reports success
\* leaves the collection existing and empty with the index in place.
Thm_C9 ==
  \A s \in Slots :
    (reqs[s].op = "index" /\ reqs[s].reset /\ reqs[s].pc = "done" /\ reqs[s].resp = "ok")
      => (collExists /\ docs = {} /\ index # NoIndex)

\* a resetting call succeeded on a collection that did not exist
W_C9 ==
  \E s \in Slots :
    /\ reqs[s].op = "index" /\ reqs[s].reset
    /\ reqs[s].pc = "done" /\ reqs[s].resp = "ok"
    /\ ~seed.exists /\ calls = 1

\* C10: when the store answers IndexAlreadyExists to the index creation the
\* call reports success, and when it answers any other error the call
\* reports failure.
Thm_C10 ==
  \A s \in Slots :
    (reqs[s].op = "index" /\ reqs[s].pc = "done" /\ reqs[s].idxAnswer # "none")
      => /\ (reqs[s].idxAnswer = "IndexAlreadyExists") => (reqs[s].resp = "ok")
         /\ (reqs[s].idxAnswer \notin {"created", "IndexAlreadyExists"})
              => (reqs[s].resp = "error")

\* the store answered IndexAlreadyExists and the call reported success
W_C10 ==
  \E s \in Slots :
    /\ reqs[s].op = "index" /\ reqs[s].pc = "done"
    /\ reqs[s].idxAnswer = "IndexAlreadyExists" /\ reqs[s].resp = "ok"

\* the answering step of a CreateOrResetIndex call that reports success
IndexSucceeds(s) ==
  /\ reqs[s].op = "index" /\ reqs[s].pc = "searchIndex"
  /\ reqs'[s].pc = "done" /\ reqs'[s].resp = "ok"

\* C11: no step of a CreateOrResetIndex call with reset = false changes the
\* field path or the dimension of an index that already exists, and the
\* field path and dimension a successful call reports as created are those
\* of the index in place when it answers.
CE_C11 ==
  [][\A s \in Slots :
       /\ (Acts(s) /\ reqs[s].op = "index" /\ ~reqs[s].reset /\ index # NoIndex)
            => index' = index
       /\ IndexSucceeds(s)
            => /\ index'.path = reportedField(reqs'[s])
               /\ index'.dims = reportedDims(reqs'[s])]_vars

\* the step in which an ingestion call inserts the chunks of a file
IngestInserts(s) ==
  /\ reqs[s].op = "ingest" /\ reqs[s].pc = "load"
  /\ docs' # docs

\* C12: the index a CreateOrResetIndex call creates has the dimension of
\* the call's provider (1536 for openai, 1024 otherwise), and the vectors an
\* IngestDocuments call stores have the dimension of that call's provider,
\* so that under one configuration index and vectors agree.
CE_C12 ==
  [][\A s \in Slots :
       /\ (IndexSucceeds(s) /\ reqs'[s].idxAnswer = "created")
            => index'.dims = (IF reqs[s].provider = "openai" THEN 1536 ELSE 1024)
       /\ IngestInserts(s)
            => \A d \in docs' \ docs :
                 d.dim = (IF reqs[s].provider = "openai" THEN 1536 ELSE 1024)]_vars

\* C13: when the nearest-neighbour search returns no chunk the question is
\* not failed for it: the completion provider is called once with the
\* sentinel context, and the success answer carries numRetrievedChunks = 0,
\* no source and the sentinel as context text.
Thm_C13 ==
  \A s \in Slots :
    (reqs[s].op = "query" /\ reqs[s].searched /\ reqs[s].err # "StoreError"
       /\ reqs[s].hits = 0)
      => /\ reqs[s].sources = 0
         /\ reqs[s].context = "No relevant documents found."
         /\ reqs[s].pc = "llm" => reqs[s].llmCalls = 0
         /\ reqs[s].pc = "done"
              => /\ reqs[s].llmCalls = 1
                 /\ reqs[s].llmContext = "No relevant documents found."
                 /\ reqs[s].err \in {"none", "CompletionError"}
                 /\ (reqs[s].err = "none") => (reqs[s].resp = "ok")

\* a question asked of an empty collection was answered with success
W_C13 ==
  \E s \in Slots :
    /\ reqs[s].op = "query" /\ reqs[s].pc = "done" /\ reqs[s].resp = "ok"
    /\ docs = {} /\ reqs[s].hits = 0 /\ reqs[s].answer = "text"
    /\ reqs[s].llmCalls = 1

IsLoadStep(s) ==
  reqs[s].op = "ingest" /\ reqs[s].pc = "load" /\ reqs'[s].pc # "load"

\* C15: when the extractor fails on a file of a supported format and the
\* embedding succeeds, the step inserts exactly one chunk for the file whose
\* text is the placeholder, records the file as processed with one chunk,
\* and the call goes on with the rest of the batch.
CE_C15 ==
  [][\A s \in Slots :
       (IsLoadStep(s) /\ reqs'[s].extractFailed /\ ~reqs'[s].embedFailed)
         => /\ Cardinality(docs' \ docs) = 1
            /\ \A d \in docs' \ docs :
                 d.source = Current(reqs[s]) /\ d.text = "placeholder"
            /\ reqs'[s].pc \in {"check", "respond"}
            /\ Len(reqs'[s].stats) = Len(reqs[s].stats) + 1]_vars

\* C16: a file whose extension is not supported gets no chunk and fails
\* alone: the call goes on with the files after it and still reports the
\* files before it.
CE_C16 ==
  [][\A s \in Slots :
       (IsLoadStep(s) /\ fileExtension(Current(reqs[s])) \notin SupportedExt)
         => /\ docs' = docs
            /\ reqs'[s].pc \in {"check", "respond"}
            /\ reqs'[s].resp # "error"]_vars

\* C17: every request is answered exactly once with a success or a failure
\* result: no handler ends without an answer and none answers twice.
CE_C17 ==
  \A s \in Slots :
    /\ reqs[s].pc # "lost"
    /\ reqs[s].answers <= 1
    /\ (reqs[s].pc = "done") => (reqs[s].answers = 1 /\ reqs[s].resp \in {"ok", "error"})

\* C18: insertMany adds every chunk of the file whatever the collection
\* already holds, so two requests that both passed the existence check of
\* one source before either inserted leave two copies of its chunks.
Thm_C18 ==
  [][\A s \in Slots :
       (IsLoadStep(s) /\ reqs'[s].pc \in {"check", "respond"})
         => Cardinality(docs') =
              Cardinality(docs) + reqs'[s].stats[Len(reqs'[s].stats)].chunksCreated]_vars

\* both requests processed the same source and the collection holds two
\* copies of its first chunk
W_C18 ==
  \E n \in Names :
    /\ \A s \in Slots :
         /\ reqs[s].op = "ingest" /\ reqs[s].pc = "done" /\ reqs[s].resp = "ok"
         /\ reqs[s].files = <<n>>
         /\ reqs[s].stats[1].status = "processed" /\ reqs[s].stats[1].chunksCreated > 0
    /\ Cardinality({ d \in docs : d.source = n /\ d.chunk_index = 0 }) = 2

\* C19: the completion provider is called at most once per question, and
\* when that call fails the request reports failure with the provider's
\* message and no answer text exists, neither in the handler's answer nor in
\* the entry the Q&A interface shows for it.
CE_C19 ==
  \A s \in Slots :
    /\ reqs[s].llmCalls <= 1
    /\ (reqs[s].op = "query" /\ reqs[s].pc = "done" /\ reqs[s].err = "CompletionError")
         => /\ reqs[s].resp = "error" /\ reqs[s].answer = "none"
            /\ handleSubmit(reqs[s]).llmResponse = "none"
            /\ handleSubmit(reqs[s]).message = reqs[s].err

\* C20: when the loop of an ingestion call takes its next file, every
\* earlier file of the batch has its outcome recorded and its chunks in the
\* collection; hence a name that an earlier file of the same batch inserted
\* at least one chunk for is skipped.
Thm_C20 ==
  [][\A s \in Slots :
       IsCheckStep(s)
         => /\ Len(reqs[s].stats) = Len(reqs[s].files)
            /\ \A i \in 1..Len(reqs[s].files) :
                 (reqs[s].stats[i].status = "processed" /\ reqs[s].stats[i].chunksCreated > 0)
                   => /\ \A k \in 0..(reqs[s].stats[i].chunksCreated - 1) :
                           \E d \in docs : d.source = reqs[s].files[i] /\ d.chunk_index = k
                      /\ (reqs[s].files[i] = Current(reqs'[s])) => SkippedNow(s)]_vars

\* a batch that names one source twice: the first file was inserted, the
\* second one skipped
W_C20 ==
  \E s \in Slots :
    /\ reqs[s].op = "ingest" /\ reqs[s].pc = "done" /\ reqs[s].resp = "ok"
    /\ Len(reqs[s].files) = 2 /\ reqs[s].files[1] = reqs[s].files[2]
    /\ reqs[s].stats[1].status = "processed" /\ reqs[s].stats[1].chunksCreated > 0
    /\ reqs[s].stats[2].status = "skipped"

\* the step in which the records of a file are handed to insertMany
IsInsertStep(s) ==
  reqs[s].op = "ingest" /\ reqs[s].pc = "embedding" /\ reqs'[s].pc # "embedding"
    /\ reqs'[s].err = "none"

\* C21: the chunks inserted for a file split into n chunks carry the
\* positions 0..n-1, each once and in the splitter's order, total_chunks = n
\* and the file's name, and each carries the vector computed from its own
\* text, in whatever order the embedding calls completed.
Thm_C21 ==
  [][\A s \in Slots :
       IsInsertStep(s)
         => LET new == docs' \ docs
                T == reqs[s].texts
            IN /\ Cardinality(new) = Len(T)
               /\ \A i \in 1..Len(T) :
                    \E d \in new :
                      /\ d.chunk_index = i - 1 /\ d.text = T[i] /\ d.vecOf = T[i]
                      /\ d.total_chunks = Len(T) /\ d.source = Current(reqs[s])]_vars

\* a file of two chunks with different texts whose second embedding call
\* completed first has been inserted
W_C21 ==
  \E s \in Slots, d1, d2 \in docs :
    /\ reqs[s].op = "ingest" /\ reqs[s].pc \in {"check", "respond", "done"}
    /\ reqs[s].resp # "error" /\ reqs[s].completed = <<2, 1>>
    /\ d1.source = Current(reqs[s]) /\ d2.source = d1.source
    /\ d1.chunk_index = 0 /\ d2.chunk_index = 1
    /\ d1.text # d2.text

Thm_C24 ==
  \A s \in Slots :
    (reqs[s].op = "ingest" /\ reqs[s].pc = "done" /\ reqs[s].resp = "ok")
      => LET t == ingestTotals(reqs[s])
             P == { i \in 1..Len(reqs[s].stats) : reqs[s].stats[i].status = "processed" }
         IN /\ t.newDocuments = Cardinality(P)
            /\ t.totalChunks = t.existingChunks + t.newChunks
            /\ t.existingChunks = reqs[s].existing
            /\ t.totalChunks = Cardinality(docs)

\* a call on a collection that held chunks added a file and skipped another
W_C24 ==
  \E s \in Slots :
    /\ reqs[s].op = "ingest" /\ reqs[s].pc = "done" /\ reqs[s].resp = "ok"
    /\ reqs[s].existing > 0 /\ Len(reqs[s].stats) = 2
    /\ ingestTotals(reqs[s]).newDocuments = 1 /\ ingestTotals(reqs[s]).newChunks = 2
    /\ reqs[s].stats[1].status = "skipped"

\* C25: the embeddingFieldPath a statistics request reports is the field
\* path the resolver returns for the same collection.
CE_C25 ==
  \A s \in Slots :
    (reqs[s].op = "stats" /\ reqs[s].pc = "done" /\ reqs[s].resp = "ok")
      => reqs[s].report.embeddingFieldPath = getEmbeddingFieldPath(docs)

\* a step of the query or statistics handler running in slot s
IsReadStep(s) ==
  /\ reqs[s].op \in {"query", "stats"}
  /\ reqs[s].pc \in {"embed", "search", "llm", "stats"}
  /\ reqs'[s] # reqs[s]

\* C26: QueryDocuments and GetCollectionStats are read-only.  In every
\* interleaving with index and ingestion requests, no step of a query or of
\* a statistics request changes the documents, the existence of the
\* collection or its index; the search step of a query searches the field
\* path that the resolver gives for the collection as the step leaves it,
\* so a repeated query on an unmodified collection searches the same path.
Thm_C26 ==
  [][\A s \in Slots :
       IsReadStep(s) =>
         /\ docs' = docs /\ collExists' = collExists /\ index' = index
         /\ (reqs[s].pc = "search" /\ reqs'[s].searched) =>
              reqs'[s].fieldPath = getEmbeddingFieldPathQuery(docs')]_vars

\* a query that has found chunks while an ingestion request is in the middle
\* of its batch: reader and writer are in flight at the same time
W_C26 ==
  /\ reqs[1].op = "ingest" /\ reqs[1].pc = "load"
  /\ reqs[2].op = "query" /\ reqs[2].pc = "llm" /\ reqs[2].hits > 0
  /\ index # NoIndex

\* the ingestion request in slot s answered failure after its loop reached a file
IngestFailed(s) ==
  /\ reqs[s].op = "ingest" /\ reqs[s].pc = "done" /\ reqs[s].resp = "error"
  /\ Len(reqs[s].files) > 0

CE_C28 ==
  \A s \in Slots : reqs[s].pc = "done" => ~reqs[s].conn

\* C29: every document-processing attempt started from the upload panel
\* returns isProcessing to false: once processDocuments has returned, on
\* success or through its catch, the flag is false and the upload controls
\* are enabled again.
CE_C29 ==
  ui.upload = "finished" => ~ui.isProcessing

\* C30: after a configuration save on a collection that holds chunks, once
\* the 500 ms timer of handleConfigSave has fired and the dashboard's stats
\* fetch has been answered with the stats of the store, in either order,
\* App's collectionStats are the fetched stats and the Q&A interface is
\* enabled.
CE_C30 ==
  ( /\ ui.timer = "fired" /\ ui.statsFetch = "done"
    /\ reqs[2].op = "stats" /\ reqs[2].pc = "done" /\ reqs[2].resp = "ok"
    /\ reqs[2].report.totalChunks > 0 )
    => /\ ui.collectionStats = [totalDocuments |-> reqs[2].report.totalDocuments,
                                totalChunks |-> reqs[2].report.totalChunks]
       /\ isSystemReady(ui)
====
